---- MODULE Spec2Model ----
(***************************************************************************)
(* pongo2rethink: a pongo2 template loader backed by a RethinkDB table,    *)
(* with helpers that load template files into the table.                   *)
(*                                                                         *)
(* Strings are sequences of one-character strings, so that prefixing,      *)
(* path cleaning and glob matching are computed character by character.    *)
(* src/loader.go holds two versions of the loader (lines 1-161 and lines   *)
(* 163-313); the variable version says which one is running.               *)
(***************************************************************************)
EXTENDS Naturals, Sequences, FiniteSets, TLC

VARIABLES
    version,   \* 1: loader.go lines 1-161, 2: loader.go lines 163-313
    Prefix,    \* Opts.Prefix
    fs,        \* the filesystem: path -> node
    store,     \* the RethinkDB table: Template.Name -> Template.Data
    last,      \* the last loader call: its arguments and what it returned
    abs,       \* the last Abs call
    key,       \* the last key built and stripped
    find       \* the last FindTemplates call

vars == <<version, Prefix, fs, store, last, abs, key, find>>

(***************************************************************************)
(* Bounds of the model.                                                    *)
(***************************************************************************)
MaxBaseLen == 3
MaxNameLen == 2
MaxKeyLen == 2
MaxPatternLen == 2

Sep == "/"

\* All strings over chars of length at most n.
RECURSIVE StringsUpTo(_, _)
StringsUpTo(chars, n) ==
    IF n = 0 THEN {<<>>}
    ELSE LET shorter == StringsUpTo(chars, n - 1)
         IN  shorter \cup {Append(s, c) : s \in shorter, c \in chars}

\* s[from..] with a 1-based index.
Drop(s, k) == SubSeq(s, k + 1, Len(s))
Take(s, k) == SubSeq(s, 1, k)

HasPrefix(s, p) == Len(p) <= Len(s) /\ Take(s, Len(p)) = p

(***************************************************************************)
(* path/filepath on a Unix build.                                          *)
(***************************************************************************)
IsAbs(name) == Len(name) > 0 /\ name[1] = Sep

\* Clean's "..": the length out is cut back to, never below dotdot; w is the
\* length after the first decrement and out[w + 1] the byte Go's out.index(w) reads.
RECURSIVE BackUp(_, _, _)
BackUp(out, w, dotdot) ==
    IF w > dotdot /\ out[w + 1] # Sep THEN BackUp(out, w - 1, dotdot) ELSE w

\* The end (exclusive, 1-based) of the path element that starts at r.
RECURSIVE ElemEnd(_, _)
ElemEnd(path, r) ==
    IF r <= Len(path) /\ path[r] # Sep THEN ElemEnd(path, r + 1) ELSE r

\* The loop of filepath.Clean; r is 1-based, out is the buffer written so far.
RECURSIVE CleanLoop(_, _, _, _, _)
CleanLoop(path, r, out, dotdot, rooted) ==
    LET n == Len(path) IN
    IF r > n THEN out
    ELSE IF path[r] = Sep THEN CleanLoop(path, r + 1, out, dotdot, rooted)
    ELSE IF path[r] = "." /\ (r = n \/ path[r + 1] = Sep)
         THEN CleanLoop(path, r + 1, out, dotdot, rooted)
    ELSE IF path[r] = "." /\ path[r + 1] = "." /\ (r + 1 = n \/ path[r + 2] = Sep)
         THEN IF Len(out) > dotdot
              THEN CleanLoop(path, r + 2,
                             Take(out, BackUp(out, Len(out) - 1, dotdot)),
                             dotdot, rooted)
              ELSE IF ~rooted
              THEN LET o == (IF Len(out) > 0 THEN Append(out, Sep) ELSE out)
                              \o <<".", ".">>
                   IN  CleanLoop(path, r + 2, o, Len(o), rooted)
              ELSE CleanLoop(path, r + 2, out, dotdot, rooted)
    ELSE LET o == IF (rooted /\ Len(out) # 1) \/ (~rooted /\ Len(out) # 0)
                  THEN Append(out, Sep) ELSE out
             e == ElemEnd(path, r)
         IN  CleanLoop(path, e, o \o SubSeq(path, r, e - 1), dotdot, rooted)

Clean(path) ==
    IF path = <<>> THEN <<".">>
    ELSE LET rooted == path[1] = Sep
             out == IF rooted THEN CleanLoop(path, 2, <<Sep>>, 1, TRUE)
                    ELSE CleanLoop(path, 1, <<>>, 0, FALSE)
         IN  IF out = <<>> THEN <<".">> ELSE out

\* The index of the last separator of path, 0 when it has none.
RECURSIVE LastSep(_, _)
LastSep(path, i) ==
    IF i = 0 \/ path[i] = Sep THEN i ELSE LastSep(path, i - 1)

Dir(path) == Clean(Take(path, LastSep(path, Len(path))))

Base(path) == Drop(path, LastSep(path, Len(path)))

(***************************************************************************)
(* RethinkTemplateLoader.Abs (the same in both versions).                  *)
(***************************************************************************)
AbsNoDir(base, name) ==
    IF IsAbs(name) \/ base = <<>> THEN name
    ELSE IF name = <<>> THEN base
    ELSE base \o <<Sep>> \o name

Abs(base, name) ==
    IF IsAbs(name) \/ base = <<>> THEN name
    ELSE IF name = <<>> THEN base
    ELSE Dir(base) \o <<Sep>> \o name

(***************************************************************************)
(* Storage keys.  Both versions of fetchTemplate compose                   *)
(* Prefix + "/" + path; Opts has no Owner field in either version, so the  *)
(* owner segment and the prefix stripping of the name listing follow the   *)
(* specification text.                                                     *)
(***************************************************************************)
rpathNoSep(prefix, path) == prefix \o path

rpath(prefix, path) == prefix \o <<Sep>> \o path

buildKey(owner, prefix, logicalPath) == owner \o rpath(prefix, logicalPath)

stripKey(owner, prefix, storageKey) ==
    LET lead == owner \o prefix \o <<Sep>>
    IN  IF HasPrefix(storageKey, lead) THEN Drop(storageKey, Len(lead))
        ELSE storageKey

(***************************************************************************)
(* finder.go: FindTemplates over a filesystem.  A filesystem maps each     *)
(* path of Universe to a node [kind, data, ok]: kind is "absent", "file"   *)
(* or "dir", data a file's content, ok whether the file or directory can   *)
(* be read.                                                                *)
(***************************************************************************)
Universe ==
    { <<"r">>,
      <<"r", Sep, "a">>, <<"r", Sep, "a", "b">>, <<"r", Sep, "d">>,
      <<"r", Sep, "d", Sep, "a">>, <<"r", Sep, "d", Sep, "b">> }

Absent == [kind |-> "absent", data |-> <<>>, ok |-> FALSE]
File(d) == [kind |-> "file", data |-> d, ok |-> TRUE]
NoReadFile == [kind |-> "file", data |-> <<>>, ok |-> FALSE]
Directory == [kind |-> "dir", data |-> <<>>, ok |-> TRUE]
NoReadDir == [kind |-> "dir", data |-> <<>>, ok |-> FALSE]

\* os.Lstat: the node, or Absent when there is none.
Lstat(fsys, path) == IF path \in DOMAIN fsys THEN fsys[path] ELSE Absent

\* The byte order of the characters in use.
Bytes == <<"*", ".", Sep, "?", "a", "b", "d", "p", "q", "r", "x", "y">>
ByteOf(c) == CHOOSE i \in 1..Len(Bytes) : Bytes[i] = c

RECURSIVE Less(_, _)
Less(s, t) ==
    IF t = <<>> THEN FALSE
    ELSE IF s = <<>> THEN TRUE
    ELSE IF s[1] # t[1] THEN ByteOf(s[1]) < ByteOf(t[1])
    ELSE Less(Tail(s), Tail(t))

RECURSIVE Sorted(_)
Sorted(names) ==
    IF names = {} THEN <<>>
    ELSE LET m == CHOOSE x \in names : \A y \in names : x = y \/ Less(x, y)
         IN  <<m>> \o Sorted(names \ {m})

\* The entries of directory path: the names of its children that exist.
Entries(fsys, path) ==
    { Drop(q, Len(path) + 1) :
        q \in { u \in DOMAIN fsys :
                  /\ HasPrefix(u, Append(path, Sep))
                  /\ fsys[u].kind # "absent"
                  /\ \A i \in (Len(path) + 2)..Len(u) : u[i] # Sep } }

\* filepath.Walk's readDirNames: the sorted entry names.
readDirNames(fsys, path) == Sorted(Entries(fsys, path))

Join(path, name) == Clean(path \o <<Sep>> \o name)

\* filepath.Match for patterns of literals, "*" and "?" (no class, no escape).
RECURSIVE Match(_, _)
Match(pattern, name) ==
    IF pattern = <<>> THEN name = <<>>
    ELSE IF pattern[1] = "*"
         THEN \/ Match(Tail(pattern), name)
              \/ name # <<>> /\ name[1] # Sep /\ Match(pattern, Tail(name))
    ELSE /\ name # <<>>
         /\ IF pattern[1] = "?" THEN name[1] # Sep ELSE name[1] = pattern[1]
         /\ Match(Tail(pattern), Tail(name))

\* templateFinder.walker with a directory tested like a file.
walkerAnyEntry(pattern, matches, path, info, err) ==
    IF info.kind = "absent" THEN [matches |-> matches, err |-> "panic"]
    ELSE [matches |-> IF Match(pattern, Base(path))
                      THEN Append(matches, path) ELSE matches,
          err |-> err]

\* templateFinder.walker.  info is the Lstat node, Absent standing for the nil
\* FileInfo Walk passes when Lstat failed: info.IsDir() then panics.
walker(pattern, matches, path, info, err) ==
    IF info.kind = "absent" THEN [matches |-> matches, err |-> "panic"]
    ELSE [matches |-> IF info.kind # "dir" /\ Match(pattern, Base(path))
                      THEN Append(matches, path) ELSE matches,
          err |-> err]

\* filepath.Walk's walk(path, info, walkFn) with walkFn = f.walker.
RECURSIVE walk(_, _, _, _)
RECURSIVE walkNames(_, _, _, _, _, _)
walk(fsys, pattern, path, matches) ==
    LET info == Lstat(fsys, path) IN
    IF info.kind # "dir" THEN walker(pattern, matches, path, info, "nil")
    ELSE LET err == IF info.ok THEN "nil" ELSE "err"
             r1 == walker(pattern, matches, path, info, err)
         IN  IF err # "nil" \/ r1.err # "nil" THEN r1
             ELSE walkNames(fsys, pattern, path, readDirNames(fsys, path), 1,
                            r1.matches)

walkNames(fsys, pattern, path, names, i, matches) ==
    IF i > Len(names) THEN [matches |-> matches, err |-> "nil"]
    ELSE LET r == walk(fsys, pattern, Join(path, names[i]), matches)
         IN  IF r.err # "nil" THEN r
             ELSE walkNames(fsys, pattern, path, names, i + 1, r.matches)

\* filepath.Walk(root, f.walker).
Walk(fsys, pattern, root) ==
    LET info == Lstat(fsys, root) IN
    IF info.kind = "absent" THEN walker(pattern, <<>>, root, info, "err")
    ELSE walk(fsys, pattern, root, <<>>)

\* FindTemplates(path, pattern): (f.matches, err); err = "panic" stands for the
\* call not returning at all.
FindTemplates(fsys, path, pattern) == Walk(fsys, pattern, path)

(***************************************************************************)
(* The RethinkDB table, keyed by Template.Name.  fault is what the backend *)
(* does to one query: "none", "down" (the query fails) or "noop" (a write  *)
(* answers without error and with every count zero).                       *)
(***************************************************************************)
Faults == {"none", "down", "noop"}

NoTemplate == [Name |-> <<>>, Data |-> <<>>]

\* rethink.Table(t).Get(rpath).Run(s) then cursor.One(&template).
Get(st, rpath_, fault) ==
    IF fault = "down" THEN [template |-> NoTemplate, err |-> "store"]
    ELSE IF rpath_ \in DOMAIN st
         THEN [template |-> [Name |-> rpath_, Data |-> st[rpath_]], err |-> "nil"]
         ELSE [template |-> NoTemplate, err |-> "ErrEmptyResult"]

\* Insert with the conflict option "replace": an existing record is overwritten.
InsertReplace(st, template, fault) ==
    IF fault = "down"
    THEN [store |-> st, Inserted |-> 0, Replaced |-> 0, err |-> "store"]
    ELSE IF fault = "noop"
    THEN [store |-> st, Inserted |-> 0, Replaced |-> 0, err |-> "nil"]
    ELSE IF template.Name \in DOMAIN st
    THEN [store |-> [st EXCEPT ![template.Name] = template.Data],
          Inserted |-> 0, Replaced |-> 1, err |-> "nil"]
    ELSE [store |-> (template.Name :> template.Data) @@ st,
          Inserted |-> 1, Replaced |-> 0, err |-> "nil"]

\* rethink.Table(t).Insert(template).RunWrite(s): no conflict option is given, so
\* a second record under an existing key is refused with an error.
Insert(st, template, fault) ==
    IF fault = "down"
    THEN [store |-> st, Inserted |-> 0, Replaced |-> 0, err |-> "store"]
    ELSE IF fault = "noop"
    THEN [store |-> st, Inserted |-> 0, Replaced |-> 0, err |-> "nil"]
    ELSE IF template.Name \in DOMAIN st
    THEN [store |-> st, Inserted |-> 0, Replaced |-> 0, err |-> "duplicate"]
    ELSE [store |-> (template.Name :> template.Data) @@ st,
          Inserted |-> 1, Replaced |-> 0, err |-> "nil"]

\* The check both loaders make of a write's answer, without the zero-count test.
writeErrNoCheck(result) == result.err

\* if err != nil { return err }; if Inserted == 0 && Replaced == 0 { weird state }.
writeErr(result) ==
    IF result.err # "nil" THEN result.err
    ELSE IF result.Inserted = 0 /\ result.Replaced = 0 THEN "weird"
    ELSE "nil"

\* ioutil.ReadFile(path).
ReadFile(fsys, path) ==
    LET info == Lstat(fsys, path)
    IN  IF info.kind = "file" /\ info.ok THEN [data |-> info.data, err |-> "nil"]
        ELSE [data |-> <<>>, err |-> "read"]

\* What fetchTemplate returns for cursor.One's error: version 1 turns
\* ErrEmptyResult into its own "Template not found." error, version 2 hands it on.
fetchErr(v, oneErr) ==
    IF v = 1 /\ oneErr = "ErrEmptyResult" THEN "notfound" ELSE oneErr

\* fetchTemplate(path).
fetchTemplate(v, st, prefix, path, fault) ==
    LET r == Get(st, rpath(prefix, path), fault)
    IN  [template |-> r.template, err |-> fetchErr(v, r.err),
         key |-> rpath(prefix, path)]

\* LoadTemplate(template).
LoadTemplate(st, template, fault) ==
    LET result == Insert(st, template, fault)
    IN  [store |-> result.store, err |-> writeErr(result), key |-> template.Name]

\* Template.Name as LoadTemplateFromFile and LoadTemplatesFromDir set it:
\* Prefix + "/" + path in version 1, path alone in version 2.
templateName(v, prefix, path) == IF v = 1 THEN rpath(prefix, path) ELSE path

\* LoadTemplateFromFile(path).
LoadTemplateFromFile(v, fsys, st, prefix, path, fault) ==
    LET name == templateName(v, prefix, path)
        read == ReadFile(fsys, path)
    IN  IF read.err # "nil"
        THEN [store |-> st, err |-> read.err, key |-> name, data |-> <<>>]
        ELSE LET result == Insert(st, [Name |-> name, Data |-> read.data], fault)
             IN  [store |-> result.store, err |-> writeErr(result), key |-> name,
                  data |-> read.data]

\* The loop of LoadTemplatesFromDir, skipping a file that fails.
RECURSIVE loadLoopSkip(_, _, _, _, _, _, _, _)
loadLoopSkip(v, fsys, st, prefix, tfiles, i, faultAt, fault) ==
    IF i > Len(tfiles) THEN [store |-> st, err |-> "nil", written |-> i - 1]
    ELSE LET read == ReadFile(fsys, tfiles[i])
             result == Insert(st, [Name |-> templateName(v, prefix, tfiles[i]),
                                   Data |-> read.data],
                              IF i = faultAt THEN fault ELSE "none")
             next == loadLoopSkip(v, fsys,
                                  IF read.err = "nil" THEN result.store ELSE st,
                                  prefix, tfiles, i + 1, faultAt, fault)
         IN  IF read.err # "nil"
             THEN [store |-> next.store, err |-> read.err, written |-> i - 1]
             ELSE IF writeErr(result) # "nil"
             THEN [store |-> next.store, err |-> writeErr(result),
                   written |-> i - 1]
             ELSE next

\* The loop of LoadTemplatesFromDir from the i-th matched file on; the backend
\* answers the faultAt-th file's write with fault.
RECURSIVE loadLoop(_, _, _, _, _, _, _, _)
loadLoop(v, fsys, st, prefix, tfiles, i, faultAt, fault) ==
    IF i > Len(tfiles) THEN [store |-> st, err |-> "nil", written |-> i - 1]
    ELSE LET read == ReadFile(fsys, tfiles[i])
             result == Insert(st, [Name |-> templateName(v, prefix, tfiles[i]),
                                   Data |-> read.data],
                              IF i = faultAt THEN fault ELSE "none")
         IN  IF read.err # "nil"
             THEN [store |-> st, err |-> read.err, written |-> i - 1]
             ELSE IF writeErr(result) # "nil"
             THEN [store |-> st, err |-> writeErr(result), written |-> i - 1]
             ELSE loadLoop(v, fsys, result.store, prefix, tfiles, i + 1,
                           faultAt, fault)

\* LoadTemplatesFromDir(dir, pattern).
LoadTemplatesFromDir(v, fsys, st, prefix, dir, pattern, faultAt, fault) ==
    LET found == FindTemplates(fsys, dir, pattern)
    IN  IF found.err # "nil"
        THEN [store |-> st, err |-> found.err, written |-> 0,
              tfiles |-> found.matches]
        ELSE LET r == loadLoop(v, fsys, st, prefix, found.matches, 1, faultAt,
                               fault)
             IN  [store |-> r.store, err |-> r.err, written |-> r.written,
                  tfiles |-> found.matches]

AbsInputs ==
    {[base |-> b, name |-> n] :
        b \in StringsUpTo({"a", "b", "c", "x", Sep, "."}, MaxBaseLen),
        n \in StringsUpTo({"a", "b", "c", "x", Sep, "."}, MaxNameLen)}

NoAbs == [base |-> <<>>, name |-> <<>>, result |-> <<>>, done |-> FALSE]
NoKey == [owner |-> <<>>, prefix |-> <<>>, path |-> <<>>, key |-> <<>>,
          stripped |-> <<>>, done |-> FALSE]
NoFind == [path |-> <<>>, pattern |-> <<>>, matches |-> <<>>, err |-> "nil",
           done |-> FALSE]
NoCall ==
    [op |-> "none", path |-> <<>>, pattern |-> <<>>, key |-> <<>>, data |-> <<>>,
     fault |-> "none", faultAt |-> 0, err |-> "nil", tfiles |-> <<>>,
     written |-> 0]

KeyInputs ==
    {[owner |-> o, prefix |-> p, path |-> l] :
        o \in StringsUpTo({"a", "b", Sep}, MaxKeyLen),
        p \in StringsUpTo({"a", "b", Sep}, MaxKeyLen),
        l \in StringsUpTo({"a", "b", Sep}, MaxKeyLen)}

\* The nodes a path may hold, below a directory.
LeafNodes == {Absent, File(<<"x">>), Directory}
TreeNodes == {Absent, File(<<"x">>), Directory, NoReadDir}

Parent(path) == Take(path, LastSep(path, Len(path)) - 1)

\* A filesystem is well formed when every node that exists lies in a directory.
WellFormed(fsys) ==
    \A u \in DOMAIN fsys :
        (Len(u) > 1 /\ fsys[u].kind # "absent") => fsys[Parent(u)].kind = "dir"

HasEntries(u) == \E v \in Universe : v # u /\ HasPrefix(v, Append(u, Sep))

AllFs ==
    { f \in [Universe -> TreeNodes] :
        /\ WellFormed(f)
        /\ \A u \in Universe : HasEntries(u) \/ f[u] \in LeafNodes }

FindRoots == { <<"r">>, <<"r", Sep, "d">>, <<"q">> }
Patterns == StringsUpTo({"a", "b", "*", "?"}, MaxPatternLen)

\* pongo2 calls Abs(base, name) to resolve an include.
CallAbs ==
    /\ ~abs.done
    /\ abs' = [abs EXCEPT !.result = Abs(abs.base, abs.name), !.done = TRUE]
    /\ UNCHANGED <<version, Prefix, fs, store, last, key, find>>

\* A key is built for a logical path and stripped again for the name listing.
CallKey ==
    /\ ~key.done
    /\ LET k == buildKey(key.owner, key.prefix, key.path)
       IN  key' = [key EXCEPT !.key = k,
                              !.stripped = stripKey(key.owner, key.prefix, k),
                              !.done = TRUE]
    /\ UNCHANGED <<version, Prefix, fs, store, last, abs, find>>

\* FindTemplates(path, pattern) is called on the filesystem.
CallFindTemplates ==
    /\ ~find.done
    /\ LET r == FindTemplates(fs, find.path, find.pattern)
       IN  find' = [find EXCEPT !.matches = r.matches, !.err = r.err,
                                !.done = TRUE]
    /\ UNCHANGED <<version, Prefix, fs, store, last, abs, key>>

\* What the adapter is asked for.
TemplateData == {<<"x">>, <<"y">>}
GetPaths == { <<"r", Sep, "a">>, <<"r", Sep, "a", "b">> }
LoadPaths == { <<"r", Sep, "a">>, <<"r", Sep, "a", "b">>, <<"r", Sep, "d">> }
TemplatePaths == { <<"r", Sep, "a">> }
DirCalls ==
    { [dir |-> <<"r">>, pattern |-> <<"*">>],
      [dir |-> <<"r">>, pattern |-> <<"a", "*">>],
      [dir |-> <<"q">>, pattern |-> <<"*">>] }

\* The filesystems the adapter runs on: a readable root directory r that holds
\* the files a, ab and d/a.
AdapterFs ==
    { f \in [Universe -> {Absent, File(<<"x">>), File(<<"y">>), NoReadFile,
                          Directory, NoReadDir}] :
        /\ f[<<"r">>] = Directory
        /\ f[<<"r", Sep, "a">>] = File(<<"x">>)
        /\ f[<<"r", Sep, "a", "b">>] \in {File(<<"y">>), NoReadFile}
        /\ f[<<"r", Sep, "d">>] \in {Directory, NoReadDir}
        /\ f[<<"r", Sep, "d", Sep, "a">>] = File(<<"x">>)
        /\ f[<<"r", Sep, "d", Sep, "b">>] = Absent }

\* The files of the largest tree of AdapterFs.
MaxFiles == 3

Call(op, path, pattern, k, data, fault, faultAt, err, tfiles, written) ==
    [op |-> op, path |-> path, pattern |-> pattern, key |-> k, data |-> data,
     fault |-> fault, faultAt |-> faultAt, err |-> err, tfiles |-> tfiles,
     written |-> written]

\* GetTemplate(path): fetchTemplate(path).
CallGetTemplate ==
    \E path \in GetPaths, fault \in {"none", "down"} :
        LET r == fetchTemplate(version, store, Prefix, path, fault)
        IN  /\ last' = Call("get", path, <<>>, r.key, r.template.Data, fault, 0,
                            r.err, <<>>, 0)
            /\ UNCHANGED <<version, Prefix, fs, store, abs, key, find>>

\* LoadTemplate(template), the caller having qualified the name of a logical path
\* with the prefix.
CallLoadTemplate ==
    \E path \in TemplatePaths, data \in TemplateData, fault \in Faults :
        LET name == rpath(Prefix, path)
            r == LoadTemplate(store, [Name |-> name, Data |-> data], fault)
        IN  /\ store' = r.store
            /\ last' = Call("load", name, <<>>, r.key, data, fault, 0, r.err,
                            <<>>, 0)
            /\ UNCHANGED <<version, Prefix, fs, abs, key, find>>

\* LoadTemplateFromFile(path); the backend is asked only when the file was read.
CallLoadTemplateFromFile ==
    \E path \in LoadPaths, fault \in Faults :
        /\ ReadFile(fs, path).err # "nil" => fault = "none"
        /\ LET r == LoadTemplateFromFile(version, fs, store, Prefix, path, fault)
           IN  /\ store' = r.store
               /\ last' = Call("file", path, <<>>, r.key, r.data, fault, 0,
                               r.err, <<>>, 0)
        /\ UNCHANGED <<version, Prefix, fs, abs, key, find>>

\* LoadTemplatesFromDir(dir, pattern); the backend's fault, if any, falls on the
\* write of one of the matched files.
CallLoadTemplatesFromDir ==
    \E c \in DirCalls, faultAt \in 0..MaxFiles, fault \in Faults :
        /\ (faultAt = 0) = (fault = "none")
        /\ LET r == LoadTemplatesFromDir(version, fs, store, Prefix, c.dir,
                                         c.pattern, faultAt, fault)
           IN  /\ r.err # "nil" => faultAt <= r.written + 1
               /\ faultAt <= Len(r.tfiles)
               /\ store' = r.store
               /\ last' = Call("dir", c.dir, c.pattern, <<>>, <<>>, fault,
                               faultAt, r.err, r.tfiles, r.written)
        /\ UNCHANGED <<version, Prefix, fs, abs, key, find>>

Init ==
    /\ version \in {1, 2}
    /\ Prefix \in {<<>>, <<"p">>}
    /\ fs \in AdapterFs
    /\ store = <<>>
    /\ last = NoCall
    /\ abs = NoAbs
    /\ key = NoKey
    /\ find = NoFind

Next ==
    \/ CallGetTemplate
    \/ CallLoadTemplate
    \/ CallLoadTemplateFromFile
    \/ CallLoadTemplatesFromDir

Spec == Init /\ [][Next]_vars

\* The loader of loader.go lines 1-161 alone.
InitV1 == Init /\ version = 1

SpecV1 == InitV1 /\ [][Next]_vars

InitAbs ==
    /\ version = 1
    /\ Prefix = <<>>
    /\ fs = <<>>
    /\ store = <<>>
    /\ last = NoCall
    /\ key = NoKey
    /\ find = NoFind
    /\ \E i \in AbsInputs :
           abs = [base |-> i.base, name |-> i.name, result |-> <<>>, done |-> FALSE]

NextAbs == CallAbs

SpecAbs == InitAbs /\ [][NextAbs]_vars

InitKey ==
    /\ version = 1
    /\ Prefix = <<>>
    /\ fs = <<>>
    /\ store = <<>>
    /\ last = NoCall
    /\ abs = NoAbs
    /\ find = NoFind
    /\ \E i \in KeyInputs :
           key = [owner |-> i.owner, prefix |-> i.prefix, path |-> i.path,
                  key |-> <<>>, stripped |-> <<>>, done |-> FALSE]

NextKey == CallKey

SpecKey == InitKey /\ [][NextKey]_vars

InitFind ==
    /\ version = 1
    /\ Prefix = <<>>
    /\ fs \in AllFs
    /\ store = <<>>
    /\ last = NoCall
    /\ abs = NoAbs
    /\ key = NoKey
    /\ \E root \in FindRoots, pat \in Patterns :
           find = [path |-> root, pattern |-> pat, matches |-> <<>>,
                   err |-> "nil", done |-> FALSE]

NextFind == CallFindTemplates

SpecFind == InitFind /\ [][NextFind]_vars

(***************************************************************************)
(* Claims about the pure functions and the finder.                         *)
(***************************************************************************)
Range(seq) == {seq[i] : i \in 1..Len(seq)}

\* The paths at or below root.
Under(root) ==
    {u \in Universe : u = root \/ HasPrefix(u, Append(root, Sep))}

\* The root exists and every directory at or below it can be read.
FullyReadable(fsys, root) ==
    /\ Lstat(fsys, root).kind # "absent"
    /\ \A u \in Under(root) : fsys[u].kind = "dir" => fsys[u].ok

\* C5: Abs(base, name) is name when name is absolute or base is empty, else
\* base when name is empty, else the directory of base, one separator and
\* name; Abs("", "x") = "x", Abs("a/b", "") = "a/b", Abs("a/b", "/c") = "/c"
\* and Abs("a/b", "c") = "a/c".
C5_AbsResolves ==
    abs.done =>
        /\ (IsAbs(abs.name) \/ abs.base = <<>>) => abs.result = abs.name
        /\ (~IsAbs(abs.name) /\ abs.base # <<>> /\ abs.name = <<>>)
               => abs.result = abs.base
        /\ (~IsAbs(abs.name) /\ abs.base # <<>> /\ abs.name # <<>>)
               => abs.result = Dir(abs.base) \o <<Sep>> \o abs.name
        /\ (abs.base = <<>> /\ abs.name = <<"x">>) => abs.result = <<"x">>
        /\ (abs.base = <<"a", Sep, "b">> /\ abs.name = <<>>)
               => abs.result = <<"a", Sep, "b">>
        /\ (abs.base = <<"a", Sep, "b">> /\ abs.name = <<Sep, "c">>)
               => abs.result = <<Sep, "c">>
        /\ (abs.base = <<"a", Sep, "b">> /\ abs.name = <<"c">>)
               => abs.result = <<"a", Sep, "c">>

C5_Witness ==
    /\ abs.done
    /\ abs.base = <<"a", Sep, "b">>
    /\ abs.name = <<"c">>
    /\ abs.result = <<"a", Sep, "c">>

\* C6: stripping owner + prefix + "/" from the key built for a logical path
\* gives the logical path back, for every owner, prefix and logical path.
C6_StripInvertsBuild ==
    key.done =>
        /\ key.key = key.owner \o key.prefix \o <<Sep>> \o key.path
        /\ key.stripped = key.path

C6_Witness ==
    /\ key.done
    /\ key.owner # <<>>
    /\ key.prefix # <<>>
    /\ key.path = <<Sep, "a">>
    /\ key.stripped = key.path

\* C8: on a tree that can be read in full, FindTemplates returns without error
\* exactly the files at or below the root whose base name matches the pattern,
\* each once: no directory and no file whose base name does not match.
C8_FindExact ==
    (find.done /\ FullyReadable(fs, find.path)) =>
        /\ find.err = "nil"
        /\ Range(find.matches) =
               {u \in Under(find.path) :
                   fs[u].kind = "file" /\ Match(find.pattern, Base(u))}
        /\ \A i, j \in 1..Len(find.matches) :
               find.matches[i] = find.matches[j] => i = j

C8_Witness ==
    /\ find.done
    /\ find.path = <<"r">>
    /\ find.pattern = <<"a">>
    /\ FullyReadable(fs, find.path)
    /\ fs[<<"r", Sep, "a">>].kind = "dir"
    /\ fs[<<"r", Sep, "a", "b">>].kind = "file"
    /\ find.matches = << <<"r", Sep, "d", Sep, "a">> >>

\* C9: when the root does not exist or a directory below it cannot be read,
\* FindTemplates returns an error value (it does not crash) and returns no
\* partial matches.
C9_ErrorValueNoPartial ==
    (/\ find.done
     /\ \/ Lstat(fs, find.path).kind = "absent"
        \/ \E u \in Under(find.path) : fs[u].kind = "dir" /\ ~fs[u].ok)
        => (find.err = "err" /\ find.matches = <<>>)

(***************************************************************************)
(* Claims about the adapter.                                               *)
(***************************************************************************)
HasRecord(st, k, d) == k \in DOMAIN st /\ st[k] = d

\* st and st2 hold the same record, or both none, under k.
SameRecord(st, st2, k) ==
    /\ (k \in DOMAIN st) = (k \in DOMAIN st2)
    /\ k \in DOMAIN st => st[k] = st2[k]

\* C1: the key written for a file and the key looked up for a logical path p
\* are both Owner + Prefix + "/" + p (no owner is configured), so that a file
\* loaded under p is the record fetchTemplate(p) finds.
C1_KeysComposeAlike ==
    /\ (last.op = "get" \/ (last.op = "file" /\ last.err = "nil"))
           => last.key = buildKey(<<>>, Prefix, last.path)
    /\ (last.op = "file" /\ last.err = "nil")
           => LET got == fetchTemplate(version, store, Prefix, last.path, "none")
              IN  got.err = "nil" /\ got.template.Data = last.data
    /\ last.op = "dir"
           => \A i \in 1..last.written :
                  buildKey(<<>>, Prefix, last.tfiles[i]) \in DOMAIN store

\* C2: fetchTemplate on a key the store holds no record for fails with the
\* loader's own not-found error: not with an error of the store handed on, and
\* not with success.
C2_MissIsNotFound ==
    (last.op = "get" /\ last.fault = "none" /\ last.key \notin DOMAIN store)
        => last.err = "notfound"

\* C3: LoadTemplatesFromDir run again on the same directory and pattern, right
\* after a run that succeeded and with the backend answering, succeeds again and
\* leaves the store as the first run left it.
C3_SecondRunSucceeds ==
    [][(/\ last.op = "dir"
        /\ last.err = "nil"
        /\ last'.op = "dir"
        /\ last'.path = last.path
        /\ last'.pattern = last.pattern
        /\ last'.fault = "none")
           => (last'.err = "nil" /\ store' = store)]_vars

\* C4: LoadTemplatesFromDir takes the matched files in match order and stops at
\* the first whose read or write fails, returning that error: the files before
\* it are written and stay written, that file and the files after it are not
\* written by the call, and nothing else in the store changes.
C4_AbortOnFirstFailure ==
    [][(last'.op = "dir" /\ last'.err \notin {"err", "panic"}) =>
        LET t == last'.tfiles
            n == last'.written
            name(i) == templateName(version, Prefix, t[i])
        IN  /\ t = FindTemplates(fs, last'.path, last'.pattern).matches
            /\ n <= Len(t)
            /\ (last'.err = "nil") = (n = Len(t))
            /\ \A i \in 1..n :
                   /\ ReadFile(fs, t[i]).err = "nil"
                   /\ name(i) \notin DOMAIN store
                   /\ HasRecord(store', name(i), ReadFile(fs, t[i]).data)
            /\ \A i \in (n + 1)..Len(t) : SameRecord(store, store', name(i))
            /\ \A k \in DOMAIN store' :
                   k \in DOMAIN store \/ \E i \in 1..n : k = name(i)
            /\ \A k \in DOMAIN store : SameRecord(store, store', k)
            /\ n < Len(t) =>
                   \/ last'.err = "read" /\ ReadFile(fs, t[n + 1]).err = "read"
                   \/ /\ ReadFile(fs, t[n + 1]).err = "nil"
                      /\ \/ /\ last'.err = "store"
                            /\ last'.faultAt = n + 1 /\ last'.fault = "down"
                         \/ /\ last'.err = "weird"
                            /\ last'.faultAt = n + 1 /\ last'.fault = "noop"
                         \/ /\ last'.err = "duplicate"
                            /\ name(n + 1) \in DOMAIN store]_vars

C4_Witness ==
    /\ last.op = "dir"
    /\ last.err \in {"read", "store", "weird", "duplicate"}
    /\ last.written >= 1
    /\ last.written + 1 < Len(last.tfiles)
    /\ templateName(version, Prefix, last.tfiles[1]) \in DOMAIN store
    /\ templateName(version, Prefix, last.tfiles[Len(last.tfiles)])
           \notin DOMAIN store

\* C7: LoadTemplate inserts the record under the name the caller gave, with no
\* prefix added; it fails with the write error whenever the backend answers
\* without error that nothing was inserted and nothing replaced, and it succeeds
\* only when one of the two counts is not zero.
C7_LoadTemplateChecksCounts ==
    [][last'.op = "load" =>
        LET answer == Insert(store, [Name |-> last'.path, Data |-> last'.data],
                             last'.fault)
        IN  /\ last'.key = last'.path
            /\ (answer.err = "nil" /\ answer.Inserted = 0 /\ answer.Replaced = 0)
                   => last'.err = "weird"
            /\ last'.err = "nil"
                   => /\ answer.Inserted + answer.Replaced > 0
                      /\ store' = (last'.path :> last'.data) @@ store
            /\ last'.err # "nil" => store' = store]_vars

C7_Witness ==
    /\ last.op = "load"
    /\ last.fault = "noop"
    /\ last.err = "weird"
    /\ last.path \notin DOMAIN store

\* C10: LoadTemplateFromFile inserts or fails.  When the store already holds a
\* record under Prefix + "/" + path the call fails and the store is unchanged;
\* when the file cannot be read the call fails and the store is unchanged; when
\* there is no record, the file can be read and the backend answers, the store
\* then holds the file's content under that key.
C10_InsertOrFail ==
    [][last'.op = "file" =>
        LET k == buildKey(<<>>, Prefix, last'.path)
            read == ReadFile(fs, last'.path)
        IN  /\ k \in DOMAIN store => (last'.err # "nil" /\ store' = store)
            /\ read.err # "nil" => (last'.err # "nil" /\ store' = store)
            /\ (k \notin DOMAIN store /\ read.err = "nil"
                    /\ last'.fault = "none")
                   => (last'.err = "nil" /\ store' = (k :> read.data) @@ store)
        ]_vars

C10_Witness ==
    /\ last.op = "file"
    /\ last.err = "duplicate"
    /\ last.key = buildKey(<<>>, Prefix, last.path)
    /\ HasRecord(store, last.key, <<"y">>)
    /\ ReadFile(fs, last.path).data = <<"x">>

====
